---------------------------- MODULE Spec2Model ----------------------------
(***************************************************************************)
(* Model of cargo-autobuild's toolchain probing (src/src/tests.rs):        *)
(* which_any, rustc::find_rustc_target and rustc::find_compiler.           *)
(*                                                                         *)
(* Strings are sequences of one-character strings, so that split, find,    *)
(* starts_with, get(1..) and parse are computed as the code computes them. *)
(* One behaviour is one call of find_compiler; every child process and     *)
(* every file-system call is one step, its outcome chosen by the           *)
(* environment.                                                            *)
(***************************************************************************)
EXTENDS Integers, Sequences, FiniteSets, TLC

VARIABLES
    pc,         \* position inside find_compiler / find_rustc_target / which_any
    env,        \* the call's inputs: environment variables, target, cross_compiling, tmpdir
    fs,         \* the file system which_any searches: path -> entry
    wa,         \* which_any's loop state: directory index, name index, path, meta
    rustc,      \* the compiler path (let rustc, line 720)
    flags,      \* the working flag string (let mut flags, line 714)
    targ,       \* RustcTargetInfo returned by find_rustc_target (line 745)
    version,    \* RustcVersion built at line 862
    scratch,    \* content last written to <tmpdir>/comptest.rs
    spawned,    \* every child process spawned so far, in order
    stdout,     \* the lines of standard output captured from the last child
    result      \* what find_compiler returned

vars == <<pc, env, fs, wa, rustc, flags, targ, version, scratch, spawned, stdout, result>>

----------------------------------------------------------------------------
(* String literals of the source.                                          *)

S_rustc == <<"r", "u", "s", "t", "c">>
S_lcrustc == <<"l", "c", "r", "u", "s", "t", "c">>
S_gccrs == <<"g", "c", "c", "r", "s">>
S_dash_gccrs == <<"-", "g", "c", "c", "r", "s">>
S_mrustc == <<"m", "r", "u", "s", "t", "c">>
S_mrust == <<"m", "r", "u", "s", "t">>
S_lccc == <<"l", "c", "c", "c">>
S_lc == <<"l", "c">>
S_comptest == <<"c", "o", "m", "p", "t", "e", "s", "t">>
S_comptest_rs == <<"c", "o", "m", "p", "t", "e", "s", "t", ".", "r", "s">>
S_default_flags == <<"-", "O", " ", "-", "g">>
S_target_flag == <<" ", "-", "-", "t", "a", "r", "g", "e", "t", " ">>
S_unknown == <<"u", "n", "k", "n", "o", "w", "n">>
S_dot == <<".">>
S_slash == <<"/">>
S_hyphen == <<"-">>

----------------------------------------------------------------------------
(* str and Path operations of the standard library, as the code uses them. *)

\* str::starts_with
StartsWith(s, p) ==
    /\ Len(p) <= Len(s)
    /\ SubSeq(s, 1, Len(p)) = p

\* str::find: the 0-based byte offset of the first occurrence, or -1 for None
Find(s, p) ==
    LET hits == {i \in 0..(Len(s) - Len(p)) : SubSeq(s, i + 1, i + Len(p)) = p}
    IN  IF hits = {} THEN -1 ELSE CHOOSE i \in hits : \A j \in hits : i <= j

\* &s[u..]
From(s, u) == SubSeq(s, u + 1, Len(s))

\* &s[..u]
Upto(s, u) == SubSeq(s, 1, u)

\* str::split(ch) collected: "a  b" gives "a", "", "b" and "" gives one empty piece
RECURSIVE Split(_, _)
Split(s, ch) ==
    LET u == Find(s, <<ch>>)
    IN  IF u = -1 THEN <<s>>
        ELSE <<Upto(s, u)>> \o Split(From(s, u + 1), ch)

\* Path::push: an absolute component replaces the path; a relative one is
\* appended, after a separator unless the path ends with one
PathPush(dir, name) ==
    IF StartsWith(name, S_slash) THEN name
    ELSE IF dir = <<>> THEN name
    ELSE IF dir[Len(dir)] = "/" THEN dir \o name
    ELSE dir \o S_slash \o name

\* Path::file_name: the last component, where the path has one
RECURSIVE file_name(_)
file_name(p) ==
    LET u == Find(p, S_slash)
    IN  IF u = -1 THEN p ELSE file_name(From(p, u + 1))

\* Path::file_name is None for the root and for a path that ends in ".."
file_name_is_none(p) == file_name(p) \in {<<>>, <<".", ".">>}

\* the directory holding an entry: the path without its last component
parent(p) ==
    LET slashes == {i \in 1..Len(p) : p[i] = "/"}
    IN  IF slashes = {} THEN <<>>
        ELSE SubSeq(p, 1, (CHOOSE i \in slashes : \A j \in slashes : j <= i) - 1)

Digits == <<"0", "1", "2", "3", "4", "5", "6", "7", "8", "9">>

DigitVal(c) == (CHOOSE i \in 1..10 : Digits[i] = c) - 1

IsDigit(c) == \E i \in 1..10 : Digits[i] = c

I32Max == 2147483647

\* the digits accumulated with checked_mul and checked_add: the value, or -1
\* when it passes i32::MAX
RECURSIVE CheckedDec(_, _)
CheckedDec(s, acc) ==
    IF s = <<>> THEN acc
    ELSE LET d == DigitVal(Head(s))
         IN  IF acc > (I32Max - d) \div 10 THEN -1
             ELSE CheckedDec(Tail(s), 10 * acc + d)

S_i32_min_digits == <<"2", "1", "4", "7", "4", "8", "3", "6", "4", "8">>

RECURSIVE StripZeros(_)
StripZeros(s) == IF s # <<>> /\ Head(s) = "0" THEN StripZeros(Tail(s)) ELSE s

\* <i32 as FromStr>::from_str: an optional single sign, then one or more ASCII
\* digits; a value outside the i32 range is an error
ParseI32(s) ==
    LET signed == s # <<>> /\ s[1] \in {"+", "-"}
        negative == signed /\ s[1] = "-"
        body == IF signed THEN Tail(s) ELSE s
        wellFormed == body # <<>> /\ \A i \in 1..Len(body) : IsDigit(body[i])
        mag == CheckedDec(body, 0)
    IN  IF ~wellFormed THEN [ok |-> FALSE, val |-> 0]
        ELSE IF mag >= 0 THEN [ok |-> TRUE, val |-> IF negative THEN 0 - mag ELSE mag]
        ELSE IF negative /\ StripZeros(body) = S_i32_min_digits
        THEN [ok |-> TRUE, val |-> 0 - I32Max - 1]
        ELSE [ok |-> FALSE, val |-> 0]

\* Option<T>
Some(v) == [some |-> TRUE, val |-> v]
None == [some |-> FALSE, val |-> <<>>]

\* a next that yields "0" where the iterator is exhausted
next_or_zero(items, i) == IF i <= Len(items) THEN Some(items[i]) ELSE Some(<<"0">>)

\* Iterator::next on the i-th call
next(items, i) == IF i <= Len(items) THEN Some(items[i]) ELSE None

\* str::get(1..): None when the string is shorter than one byte
get_from_1(s) == IF Len(s) >= 1 THEN Some(Tail(s)) ELSE None

----------------------------------------------------------------------------
(* std::io::Error values: a kind, the format string, and the values the    *)
(* message was formatted with.                                             *)

IoError(kind, text, names) == [tag |-> "Err", kind |-> kind, text |-> text, names |-> names]

NoResult == [tag |-> "None"]

\* the thread unwinds: find_compiler returns nothing to its caller
Panicked == [tag |-> "Panic"]

----------------------------------------------------------------------------
(* target_tuples::Target: the components, the short canonical name         *)
(* (get_name) and the full canonical string (to_string).                   *)

Target(name, arch, vendor, os, environment) ==
    [name |-> name, arch |-> arch, vendor |-> vendor, os |-> os,
     environment |-> environment]

get_name(t) == t.name

to_string(t) ==
    t.arch \o S_hyphen \o t.vendor \o S_hyphen \o t.os \o S_hyphen \o t.environment

\* Target::from_components(arch, vendor, os, env, objfmt): the name of a triple
\* built from components is its full canonical string
from_components(arch, vendor, os, environment) ==
    LET t == Target(<<>>, arch, vendor, os, environment)
    IN  [t EXCEPT !.name = to_string(t)]

S_x86 == <<"x", "8", "6">>
S_pc == <<"p", "c">>
S_linux == <<"l", "i", "n", "u", "x">>
S_gnu == <<"g", "n", "u">>
S_arm == <<"a", "r", "m">>

\* x86-linux-gnu, in full x86-pc-linux-gnu
TargetPc == Target(S_x86 \o S_hyphen \o S_linux \o S_hyphen \o S_gnu,
                   S_x86, S_pc, S_linux, S_gnu)

\* arm-unknown-linux-gnu: the vendor is "unknown" already
TargetUnknown == from_components(S_arm, S_unknown, S_linux, S_gnu)

Targets == {TargetPc, TargetUnknown}

----------------------------------------------------------------------------
(* The inputs of one call of find_compiler.                                *)

P_a == <<"/", "a">>
P_b == <<"/", "b">>
P_tmp == <<"/", "t">>
P_b_rustc == PathPush(P_b, S_rustc)
P_a_rustc == PathPush(P_a, S_rustc)
P_b_gccrs == PathPush(P_b, get_name(TargetPc) \o S_dash_gccrs)
P_b_dotdot == PathPush(P_b, <<".", ".">>)
S_rustc2 == <<"r", "u", "s", "t", "c", "2">>
P_a_rustc2 == PathPush(P_a, S_rustc2)

Unset == [set |-> FALSE, unicode |-> TRUE, val |-> <<>>]
Value(v) == [set |-> TRUE, unicode |-> TRUE, val |-> v]
NotUnicode == [set |-> TRUE, unicode |-> FALSE, val |-> <<>>]

\* values of the compiler override variable (var)
CompilerVars ==
    {Unset, Value(P_b_rustc), Value(P_b_gccrs), Value(S_slash), Value(P_b_dotdot)}

\* values of the flags override variable (flags_var)
FlagsVars == {Unset, NotUnicode, Value(<<"-", "O">>), Value(<<>>)}

\* values of PATH, already split by std::env::split_paths
PathVars == {[set |-> FALSE, dirs |-> <<>>], [set |-> TRUE, dirs |-> <<P_a, P_b>>]}

Absent == [type |-> "absent", to |-> <<>>]
File == [type |-> "file", to |-> <<>>]
Link(to) == [type |-> "link", to |-> to]
\* a symbolic link whose read_link fails (EIO, EACCES)
BadLink == [type |-> "badlink", to |-> <<>>]

FsPaths ==
    {PathPush(d, n) : d \in {P_a, P_b}, n \in {S_rustc, S_lcrustc}} \cup {P_a_rustc2}

EmptyFs == [p \in FsPaths |-> Absent]

\* the file systems of the model
FileSystems ==
    { EmptyFs,
      [EmptyFs EXCEPT ![P_a_rustc] = File],
      [EmptyFs EXCEPT ![P_b_rustc] = File],
      [EmptyFs EXCEPT ![PathPush(P_a, S_lcrustc)] = File],
      [EmptyFs EXCEPT ![P_a_rustc] = Link(P_b_rustc), ![P_b_rustc] = File],
      [EmptyFs EXCEPT ![P_a_rustc] = Link(P_b_rustc)],
      [EmptyFs EXCEPT ![P_a_rustc] = BadLink],
      [EmptyFs EXCEPT ![P_a_rustc] = Link(P_b_rustc), ![P_b_rustc] = BadLink],
      \* /a/rustc -> rustc2, a target relative to /a; the working directory,
      \* which is not /a, holds no rustc2
      [EmptyFs EXCEPT ![P_a_rustc] = Link(S_rustc2), ![P_a_rustc2] = File],
      \* two links that point at each other
      [EmptyFs EXCEPT ![P_a_rustc] = Link(P_b_rustc), ![P_b_rustc] = Link(P_a_rustc)] }

\* std::fs::symlink_metadata: the entry itself, links not followed
symlink_metadata(f, p) == IF p \in DOMAIN f THEN f[p] ELSE Absent

is_symlink(meta) == meta.type \in {"link", "badlink"}

MaxLinkDepth == 4

\* Path::exists: metadata(path).is_ok(), links followed by the system, a
\* relative target from the directory of its link, ELOOP past the depth
RECURSIVE ExistsWithin(_, _, _)
ExistsWithin(f, p, depth) ==
    LET meta == symlink_metadata(f, p)
    IN  CASE meta.type = "file" -> TRUE
          [] meta.type = "link" ->
                depth > 0 /\ ExistsWithin(f, PathPush(parent(p), meta.to), depth - 1)
          [] OTHER -> FALSE

exists(f, p) == ExistsWithin(f, p, MaxLinkDepth)

\* the candidate names find_compiler passes to which_any (lines 723-728)
Candidates(target) ==
    <<S_rustc, S_lcrustc, get_name(target) \o S_dash_gccrs, S_gccrs>>

NoWa == [d |-> 0, n |-> 0, path |-> <<>>, meta |-> Absent]

NoTargetInfo == [target |-> <<>>, exe_suffix |-> <<>>,
                 rlib_prefix |-> <<>>, rlib_suffix |-> <<>>,
                 dylib_prefix |-> <<>>, dylib_suffix |-> <<>>,
                 staticlib_prefix |-> <<>>, staticlib_suffix |-> <<>>,
                 cdylib_prefix |-> <<>>, cdylib_suffix |-> <<>>,
                 procmacro_prefix |-> <<>>, procmacro_suffix |-> <<>>]

NoVersion == [prgname |-> <<>>, major |-> 0, minor |-> 0, patch |-> 0, channel |-> "None"]

Init ==
    /\ pc = "flags"
    /\ env \in [var : CompilerVars, flags_var : FlagsVars, PATH : PathVars,
                target : Targets, cross_compiling : BOOLEAN, tmpdir : {P_tmp}]
    \* the file system is read by which_any alone, which is not called when
    \* the override variable is set (line 720)
    /\ fs \in IF env.var.set THEN {EmptyFs} ELSE FileSystems
    /\ wa = NoWa
    /\ rustc = <<>>
    /\ flags = <<>>
    /\ targ = NoTargetInfo
    /\ version = NoVersion
    /\ scratch = "none"
    /\ spawned = <<>>
    /\ stdout = <<>>
    /\ result = NoResult

\* return Err(e) / the ? operator
Return(r) ==
    /\ pc' = "done"
    /\ result' = r

----------------------------------------------------------------------------
(* find_compiler, lines 714-743: the flags, the compiler path, the source. *)

\* lines 714-718
ReadFlags ==
    /\ pc = "flags"
    /\ IF ~env.flags_var.set
       THEN flags' = S_default_flags /\ pc' = "locate" /\ UNCHANGED result
       ELSE IF env.flags_var.unicode
       THEN flags' = env.flags_var.val /\ pc' = "locate" /\ UNCHANGED result
       ELSE Return(IoError("InvalidData", "VarError", {})) /\ UNCHANGED flags
    /\ UNCHANGED <<env, fs, stdout, wa, rustc, targ, version, scratch, spawned>>

\* an absent PATH reported as malformed data
PathVarError_invalid == IoError("InvalidData", "VarError", {})

\* which_any line 8: env::var("PATH").map_err(|e| Error::new(NotFound, e))?
PathVarError == IoError("NotFound", "VarError", {})

\* an override variable that is never seen
var_os_none(v) == None

\* line 720: std::env::var_os(var)
var_os(v) == IF v.set THEN Some(v.val) ELSE None

\* lines 720-729, and which_any line 8
Locate ==
    /\ pc = "locate"
    /\ IF var_os(env.var).some
       THEN rustc' = var_os(env.var).val /\ pc' = "write_src" /\ UNCHANGED <<wa, result>>
       ELSE IF ~env.PATH.set
       THEN Return(PathVarError) /\ UNCHANGED <<wa, rustc>>
       ELSE /\ wa' = [NoWa EXCEPT !.d = 1, !.n = 1]
            /\ pc' = "which_for"
            /\ UNCHANGED <<rustc, result>>
    /\ UNCHANGED <<env, fs, stdout, flags, targ, version, scratch, spawned>>

\* which_any lines 9-13 and 24-27: the next (directory, name) pair, or the end
\* of the directories
WhichFor ==
    /\ pc = "which_for"
    /\ LET names == Candidates(env.target)
           dirs == env.PATH.dirs
       IN  IF wa.d > Len(dirs)
           THEN Return(IoError("NotFound", "Cannot find files", {})) /\ UNCHANGED wa
           ELSE IF wa.n > Len(names)
           THEN wa' = [wa EXCEPT !.d = wa.d + 1, !.n = 1] /\ UNCHANGED <<pc, result>>
           ELSE LET path == PathPush(dirs[wa.d], names[wa.n])
                    meta == symlink_metadata(fs, path)
                IN  IF meta.type = "absent"
                    THEN Return(IoError("NotFound", "os error", {path})) /\ UNCHANGED wa
                    ELSE /\ wa' = [wa EXCEPT !.path = path, !.meta = meta]
                         /\ pc' = "which_while"
                         /\ UNCHANGED result
    /\ UNCHANGED <<env, fs, stdout, rustc, flags, targ, version, scratch, spawned>>

\* which_any lines 14-21: one turn of the while loop, or the test after it
WhichWhile ==
    /\ pc = "which_while"
    /\ IF is_symlink(wa.meta)
       THEN IF wa.meta.type = "badlink"
            THEN Return(IoError("Other", "os error", {wa.path})) /\ UNCHANGED <<wa, rustc>>
            ELSE LET path == wa.meta.to
                     meta == symlink_metadata(fs, path)
                 IN  IF meta.type = "absent"
                     THEN Return(IoError("NotFound", "os error", {path}))
                          /\ UNCHANGED <<wa, rustc>>
                     ELSE /\ wa' = [wa EXCEPT !.path = path, !.meta = meta]
                          /\ UNCHANGED <<pc, result, rustc>>
       ELSE IF exists(fs, wa.path)
            THEN rustc' = wa.path /\ pc' = "write_src" /\ UNCHANGED <<wa, result>>
            ELSE /\ wa' = [wa EXCEPT !.n = wa.n + 1]
                 /\ pc' = "which_for"
                 /\ UNCHANGED <<rustc, result>>
    /\ UNCHANGED <<env, fs, stdout, flags, targ, version, scratch, spawned>>

\* a compiler never taken as named after the target
self_naming_never(rustc_path, target) == FALSE

\* lines 91-96: rustc.file_name() starts with target.get_name()
self_naming(rustc_path, target) == StartsWith(file_name(rustc_path), get_name(target))

comptest_path == PathPush(env.tmpdir, S_comptest_rs)

\* lines 737-745: std::fs::write(&comptest_path, "fn main(){}")?, then the
\* entry of find_rustc_target (lines 91-96)
WriteSource ==
    /\ pc = "write_src"
    /\ \E ok \in BOOLEAN :
         IF ok
         THEN /\ scratch' = "main"
              \* lines 91-93: rustc.file_name().unwrap()
              /\ IF file_name_is_none(rustc)
                 THEN Return(Panicked)
                 ELSE /\ pc' = IF self_naming(rustc, env.target)
                               THEN "probe_self" ELSE "probe_short"
                      /\ UNCHANGED result
         ELSE Return(IoError("Other", "os error", {comptest_path})) /\ UNCHANGED scratch
    /\ UNCHANGED <<env, fs, stdout, wa, rustc, flags, targ, version, spawned>>

----------------------------------------------------------------------------
(* Child processes.                                                        *)

NoTarget == [has |-> FALSE, val |-> <<>>]
TargetArg(t) == [has |-> TRUE, val |-> t]

\* Command::new(prog) with the arguments the code gives it, and how it ended:
\* "spawn_error" (Err from output() or status()), "failure" (non-zero exit)
\* or "success"
Command(kind, step, prog, flagstr, target, crate_type, emit, input, status) ==
    [kind |-> kind, step |-> step, prog |-> prog, args |-> Split(flagstr, " "),
     target |-> target, crate_type |-> crate_type, emit |-> emit, input |-> input,
     status |-> status]

Statuses == {"spawn_error", "failure", "success"}

SpawnError(prog) == IoError("PermissionDenied", "os error", {prog})

F_exe == <<"c", "o", "m", "p", "t", "e", "s", "t", ".", "e", "x", "e">>
F_rlib == <<"l", "i", "b", "c", "o", "m", "p", "t", "e", "s", "t", ".", "r", "l", "i", "b">>
F_so == <<"l", "i", "b", "c", "o", "m", "p", "t", "e", "s", "t", ".", "s", "o">>
F_a == <<"l", "i", "b", "c", "o", "m", "p", "t", "e", "s", "t", ".", "a">>
F_dll == <<"c", "o", "m", "p", "t", "e", "s", "t", ".", "d", "l", "l">>
F_lib == <<"c", "o", "m", "p", "t", "e", "s", "t", ".", "l", "i", "b">>

\* what --print file-names prints: six lines, or fewer
UnixNames == <<S_comptest, F_rlib, F_so, F_a, F_so, F_so>>
WindowsNames == <<F_exe, F_rlib, F_dll, F_lib, F_dll, F_dll>>

\* names with several dots, a dot before the crate name, the crate name twice,
\* no crate name, no dot
F_a_b_c == <<"a", ".", "b", ".", "c">>
F_x_comptest == <<"x", ".", "c", "o", "m", "p", "t", "e", "s", "t">>
F_bare_lib == <<"l", "i", "b">>
F_twice_a == <<"c", "o", "m", "p", "t", "e", "s", "t", "c", "o", "m", "p", "t", "e", "s", "t", ".", "a">>
F_libcomptest == <<"l", "i", "b", "c", "o", "m", "p", "t", "e", "s", "t">>
F_p_so_1 == <<"p", "-", "c", "o", "m", "p", "t", "e", "s", "t", ".", "s", "o", ".", "1">>
OddNames == <<F_a_b_c, F_x_comptest, F_bare_lib, F_twice_a, F_libcomptest, F_p_so_1>>

\* a compiler that predicts its library with the directory it installs to
F_abs_rlib == <<"/", "b", "/", "l", "i", "b", "c", "o", "m", "p", "t", "e", "s", "t", ".", "r", "l", "i", "b">>
AbsNames == <<S_comptest, F_abs_rlib, F_so, F_a, F_so, F_so>>

ProbeOutputs ==
    {UnixNames, WindowsNames, OddNames, AbsNames, SubSeq(UnixNames, 1, 3), <<>>}

FileNamesError(rustc_path) ==
    IoError("Unsupported", "Could not determine file names from invoking {}", {rustc_path})

\* the extension alone: the part from the last "."
suffix_of_last_dot(name) ==
    LET dots == {i \in 1..Len(name) : name[i] = "."}
    IN  IF dots = {} THEN <<>>
        ELSE SubSeq(name, CHOOSE i \in dots : \A j \in dots : j <= i, Len(name))

\* name.find(".").map(|u| name[u..].to_string()).unwrap_or_default()
suffix_of(name) ==
    LET u == Find(name, S_dot) IN IF u = -1 THEN <<>> ELSE From(name, u)

\* name.find("comptest").map(|u| name[..u].to_string()).unwrap_or_default()
prefix_of(name) ==
    LET u == Find(name, S_comptest) IN IF u = -1 THEN <<>> ELSE Upto(name, u)

\* a derivation that takes a missing line for an empty one
file_names_lenient(ret, lines, rustc_path) ==
    LET line(i) == IF i <= Len(lines) THEN lines[i] ELSE <<>>
    IN  [tag |-> "Ok",
         info |-> [ret EXCEPT
              !.exe_suffix = suffix_of(line(1)),
              !.rlib_prefix = prefix_of(line(2)),
              !.rlib_suffix = suffix_of(line(2)),
              !.dylib_prefix = prefix_of(line(3)),
              !.dylib_suffix = suffix_of(line(3)),
              !.staticlib_prefix = prefix_of(line(4)),
              !.staticlib_suffix = suffix_of(line(4)),
              !.cdylib_prefix = prefix_of(line(5)),
              !.cdylib_suffix = suffix_of(line(5)),
              !.procmacro_prefix = prefix_of(line(6)),
              !.procmacro_suffix = suffix_of(line(6))]]

\* a derivation that gives an executable suffix to the baseline compiler alone
file_names_by_path(ret, lines, rustc_path) ==
    IF Len(lines) < 6
    THEN FileNamesError(rustc_path)
    ELSE [tag |-> "Ok",
          info |-> [file_names_lenient(ret, lines, rustc_path).info EXCEPT
              !.exe_suffix = IF file_name(rustc_path) = S_rustc
                             THEN suffix_of(lines[1]) ELSE <<>>]]

\* lines 112-235, the block of the branch without --target: the six lines to
\* the fields of ret, or the error of the first missing line
file_names(ret, lines, rustc_path) ==
    IF Len(lines) < 6
    THEN FileNamesError(rustc_path)
    ELSE [tag |-> "Ok",
          info |-> [ret EXCEPT
              !.exe_suffix = suffix_of(lines[1]),
              !.rlib_prefix = prefix_of(lines[2]),
              !.rlib_suffix = suffix_of(lines[2]),
              !.dylib_prefix = prefix_of(lines[3]),
              !.dylib_suffix = suffix_of(lines[3]),
              !.staticlib_prefix = prefix_of(lines[4]),
              !.staticlib_suffix = suffix_of(lines[4]),
              !.cdylib_prefix = prefix_of(lines[5]),
              !.cdylib_suffix = suffix_of(lines[5]),
              !.procmacro_prefix = prefix_of(lines[6]),
              !.procmacro_suffix = suffix_of(lines[6])]]

\* lines 263-386: the block of the first --target attempt
file_names_short(ret, lines, rustc_path) ==
    IF Len(lines) < 6
    THEN FileNamesError(rustc_path)
    ELSE [tag |-> "Ok",
          info |-> [ret EXCEPT
              !.exe_suffix = suffix_of(lines[1]),
              !.rlib_prefix = prefix_of(lines[2]),
              !.rlib_suffix = suffix_of(lines[2]),
              !.dylib_prefix = prefix_of(lines[3]),
              !.dylib_suffix = suffix_of(lines[3]),
              !.staticlib_prefix = prefix_of(lines[4]),
              !.staticlib_suffix = suffix_of(lines[4]),
              !.cdylib_prefix = prefix_of(lines[5]),
              !.cdylib_suffix = suffix_of(lines[5]),
              !.procmacro_prefix = prefix_of(lines[6]),
              !.procmacro_suffix = suffix_of(lines[6])]]

\* lines 411-534: the block of the second --target attempt
file_names_full(ret, lines, rustc_path) ==
    IF Len(lines) < 6
    THEN FileNamesError(rustc_path)
    ELSE [tag |-> "Ok",
          info |-> [ret EXCEPT
              !.exe_suffix = suffix_of(lines[1]),
              !.rlib_prefix = prefix_of(lines[2]),
              !.rlib_suffix = suffix_of(lines[2]),
              !.dylib_prefix = prefix_of(lines[3]),
              !.dylib_suffix = suffix_of(lines[3]),
              !.staticlib_prefix = prefix_of(lines[4]),
              !.staticlib_suffix = suffix_of(lines[4]),
              !.cdylib_prefix = prefix_of(lines[5]),
              !.cdylib_suffix = suffix_of(lines[5]),
              !.procmacro_prefix = prefix_of(lines[6]),
              !.procmacro_suffix = suffix_of(lines[6])]]

\* a third block that takes the executable suffix from the last "."
file_names_norm_drifted(ret, lines, rustc_path) ==
    LET r == file_names(ret, lines, rustc_path)
    IN  IF r.tag = "Ok"
        THEN [r EXCEPT !.info.exe_suffix = suffix_of_last_dot(lines[1])]
        ELSE r

\* lines 567-690: the block of the third --target attempt
file_names_norm(ret, lines, rustc_path) ==
    IF Len(lines) < 6
    THEN FileNamesError(rustc_path)
    ELSE [tag |-> "Ok",
          info |-> [ret EXCEPT
              !.exe_suffix = suffix_of(lines[1]),
              !.rlib_prefix = prefix_of(lines[2]),
              !.rlib_suffix = suffix_of(lines[2]),
              !.dylib_prefix = prefix_of(lines[3]),
              !.dylib_suffix = suffix_of(lines[3]),
              !.staticlib_prefix = prefix_of(lines[4]),
              !.staticlib_suffix = suffix_of(lines[4]),
              !.cdylib_prefix = prefix_of(lines[5]),
              !.cdylib_suffix = suffix_of(lines[5]),
              !.procmacro_prefix = prefix_of(lines[6]),
              !.procmacro_suffix = suffix_of(lines[6])]]

S_crate_types == "bin,rlib,dylib,staticlib,cdylib,proc-macro"

\* a match whose Err arm is taken for a non-zero exit: the next attempt is made
match_arm_err_ignored(status) == IF status = "spawn_error" THEN "failure" ELSE status

\* the match on Command::output(): Ok(output) if output.status.success(),
\* Ok(_), Err(e) (lines 110, 237, 241 and 259, 388, 389)
match_arm(status) == status

\* a session that goes from the probe straight to the full-binary compile
after_find_rustc_target_compile == "compile_bin"

\* lines 745-746: find_rustc_target(...)? is followed by the version query
after_find_rustc_target == "version"

\* let mut ret = RustcTargetInfo::default(); ret.target = ... (lines 89, 111)
ret_of(ret_target) == [NoTargetInfo EXCEPT !.target = ret_target]

\* the arm Ok(output) if output.status.success() of a probe: ret.target, the
\* flags (appended unless the probe had no --target), then the outcome r of
\* the branch's block over the six lines
ProbeSucceeded(ret_target, append, r) ==
        /\ flags' = IF append THEN flags \o S_target_flag \o ret_target ELSE flags
        /\ IF r.tag = "Ok"
           THEN targ' = r.info /\ pc' = after_find_rustc_target /\ UNCHANGED result
           ELSE Return(r) /\ UNCHANGED targ

----------------------------------------------------------------------------
(* find_rustc_target, lines 83-705.                                        *)

\* lines 97-242: the compiler is named after the target; no --target
ProbeSelf ==
    /\ pc = "probe_self"
    /\ \E status \in Statuses, lines \in ProbeOutputs :
         /\ status # "success" => lines = <<>>
         /\ spawned' = Append(spawned,
                Command("probe", "self", rustc, flags, NoTarget, S_crate_types,
                        <<>>, comptest_path, status))
         /\ stdout' = lines
         /\ CASE match_arm(status) = "success" ->
                   ProbeSucceeded(get_name(env.target), FALSE,
                       file_names(ret_of(get_name(env.target)), lines, rustc))
              [] match_arm(status) = "failure" ->
                   /\ Return(IoError("Unsupported", "Cannot execute {}", {rustc}))
                   /\ UNCHANGED <<flags, targ>>
              [] match_arm(status) = "spawn_error" ->
                   Return(SpawnError(rustc)) /\ UNCHANGED <<flags, targ>>
    /\ UNCHANGED <<env, fs, wa, rustc, version, scratch>>

\* lines 244-390: --target <short name>
ProbeShort ==
    /\ pc = "probe_short"
    /\ \E status \in Statuses, lines \in ProbeOutputs :
         /\ status # "success" => lines = <<>>
         /\ spawned' = Append(spawned,
                Command("probe", "short", rustc, flags,
                        TargetArg(get_name(env.target)), S_crate_types,
                        <<>>, comptest_path, status))
         /\ stdout' = lines
         /\ CASE match_arm(status) = "success" ->
                   ProbeSucceeded(get_name(env.target), TRUE,
                       file_names_short(ret_of(get_name(env.target)), lines, rustc))
              [] match_arm(status) = "failure" ->
                   pc' = "probe_full" /\ UNCHANGED <<flags, targ, result>>
              [] match_arm(status) = "spawn_error" ->
                   Return(SpawnError(rustc)) /\ UNCHANGED <<flags, targ>>
    /\ UNCHANGED <<env, fs, wa, rustc, version, scratch>>

\* lines 392-538: --target <full canonical string>
ProbeFull ==
    /\ pc = "probe_full"
    /\ \E status \in Statuses, lines \in ProbeOutputs :
         /\ status # "success" => lines = <<>>
         /\ spawned' = Append(spawned,
                Command("probe", "full", rustc, flags,
                        TargetArg(to_string(env.target)), S_crate_types,
                        <<>>, comptest_path, status))
         /\ stdout' = lines
         /\ CASE match_arm(status) = "success" ->
                   ProbeSucceeded(to_string(env.target), TRUE,
                       file_names_full(ret_of(to_string(env.target)), lines, rustc))
              [] match_arm(status) = "failure" ->
                   pc' = "probe_norm" /\ UNCHANGED <<flags, targ, result>>
              [] match_arm(status) = "spawn_error" ->
                   Return(SpawnError(rustc)) /\ UNCHANGED <<flags, targ>>
    /\ UNCHANGED <<env, fs, wa, rustc, version, scratch>>

\* lines 540-546
ntarget(target) ==
    from_components(target.arch, S_unknown, target.os, target.environment)

\* line 555: the --target argument of the third attempt
norm_probe_arg(target) == to_string(target)

\* line 564: ret.target of the third attempt
norm_ret_target(target) == to_string(ntarget(target))

CannotTargetError(target, rustc_path) ==
    IoError("Unsupported", "Could not determine how to compile for {} using {}",
            {get_name(target), rustc_path})

\* lines 540-703: the vendor-normalized triple, the third --target attempt
ProbeNorm ==
    /\ pc = "probe_norm"
    /\ \E status \in Statuses, lines \in ProbeOutputs :
         /\ status # "success" => lines = <<>>
         /\ spawned' = Append(spawned,
                Command("probe", "norm", rustc, flags,
                        TargetArg(norm_probe_arg(env.target)), S_crate_types,
                        <<>>, comptest_path, status))
         /\ stdout' = lines
         /\ CASE match_arm(status) = "success" ->
                   ProbeSucceeded(norm_ret_target(env.target), TRUE,
                       file_names_norm(ret_of(norm_ret_target(env.target)), lines, rustc))
              [] match_arm(status) = "failure" ->
                   /\ Return(CannotTargetError(env.target, rustc))
                   /\ UNCHANGED <<flags, targ>>
              [] match_arm(status) = "spawn_error" ->
                   Return(SpawnError(rustc)) /\ UNCHANGED <<flags, targ>>
    /\ UNCHANGED <<env, fs, wa, rustc, version, scratch>>

----------------------------------------------------------------------------
(* find_compiler, lines 746-868: the version query and its parsing.        *)

VersionError(rustc_path) ==
    IoError("Unsupported", "Cannot determine the version of {}", {rustc_path})

\* the channel match without its "nightly" arm
parse_channel_no_nightly(tag) ==
    IF tag.some
    THEN CASE tag.val = <<"b", "e", "t", "a">> -> "Beta"
           [] OTHER -> "Dev"
    ELSE "Stable"

\* lines 829-837
parse_channel(tag) ==
    IF tag.some
    THEN CASE tag.val = <<"b", "e", "t", "a">> -> "Beta"
           [] tag.val = <<"n", "i", "g", "h", "t", "l", "y">> -> "Nightly"
           [] OTHER -> "Dev"
    ELSE "Stable"

\* lines 839-850: the third token with its first byte dropped
marker(paren, prgname) ==
    IF paren.some
    THEN LET payload == get_from_1(paren.val)
         IN  CASE payload = Some(S_mrustc) -> Some(S_mrust)
               [] payload = Some(S_lccc) -> Some(S_lcrustc)
               [] OTHER -> prgname
    ELSE prgname

\* the channel left as parsed
lc_override_never(prgname, channel) == channel

\* lines 858-860
lc_override(prgname, channel) ==
    IF StartsWith(prgname, S_lc) THEN "Unstable" ELSE channel

\* lines 755-868: the version line to a RustcVersion, or Unsupported
parse_version(line, rustc_path) ==
    LET components == Split(line, " ")
        name == next(components, 1)
        ver == next(components, 2)
        parts == IF ver.some THEN Split(ver.val, ".") ELSE <<>>
        major_s == next(parts, 1)
        minor_s == next(parts, 2)
        tail == next(parts, 3)
        patch_and_maybe_channel == IF tail.some THEN Split(tail.val, "-") ELSE <<>>
        patch_s == next(patch_and_maybe_channel, 1)
        major == IF major_s.some THEN ParseI32(major_s.val) ELSE [ok |-> FALSE, val |-> 0]
        minor == IF minor_s.some THEN ParseI32(minor_s.val) ELSE [ok |-> FALSE, val |-> 0]
        patch == IF patch_s.some THEN ParseI32(patch_s.val) ELSE [ok |-> FALSE, val |-> 0]
        channel == parse_channel(next(patch_and_maybe_channel, 2))
        first == IF name.some /\ name.val # S_rustc THEN name ELSE None
        chosen == marker(next(components, 3), first)
        prgname == IF chosen.some THEN chosen.val ELSE S_rustc
    IN  IF name.some /\ ver.some /\ major.ok /\ minor.ok /\ tail.some /\ patch.ok
        THEN [tag |-> "Ok",
              version |-> [prgname |-> prgname, major |-> major.val,
                           minor |-> minor.val, patch |-> patch.val,
                           channel |-> lc_override(prgname, channel)]]
        ELSE VersionError(rustc_path)

\* program names the version line starts with
VersionNames == {S_rustc, S_lcrustc, S_gccrs}

\* what follows the patch number inside the version token
VersionTags ==
    { <<>>,
      <<"-", "b", "e", "t", "a">>,
      <<"-", "n", "i", "g", "h", "t", "l", "y">>,
      <<"-", "d", "e", "v">>,
      <<"-", "b", "e", "t", "a", ".", "3">>,
      <<"-", "n", "i", "g", "h", "t", "l", "y", "-", "2">> }

\* what follows the version token on the line
VersionRests ==
    { <<>>,
      <<" ", "(", "a", "b", "c", "d", "e", "f", ")", " ">>,
      <<" ", "(", "l", "c", "c", "c", ")">>,
      <<" ", "(", "l", "c", "c", "c", " ", "1", ")">>,
      <<" ", "(", "m", "r", "u", "s", "t", "c", ")">>,
      <<" ", "(", "m", "r", "u", "s", "t", "c", " ", "1", ")">> }

VersionLine(name, major, minor, patch, tag, rest) ==
    name \o <<" ">> \o major \o S_dot \o minor \o S_dot \o patch \o tag \o rest

\* decimal numbers of a version: small ones, and the first past i32::MAX
VersionNumbers == {<<"1">>, <<"7", "5">>, <<"0">>, S_i32_min_digits}

VersionCase(name, major, minor, patch, tag, rest) ==
    [name |-> name, major |-> major, minor |-> minor, patch |-> patch,
     tag |-> tag, rest |-> rest]

\* the lines of the form <name> <major>.<minor>.<patch>[-<tag>] ... the
\* compiler prints: every name, tag and rest with 1.75.0, and "rustc" with
\* every number
GoodVersionCases ==
    { VersionCase(n, <<"1">>, <<"7", "5">>, <<"0">>, t, r) :
        n \in VersionNames, t \in VersionTags, r \in VersionRests }
    \cup
    { VersionCase(S_rustc, ma, mi, p, <<>>, <<>>) :
        ma \in {<<"1">>, S_i32_min_digits}, mi \in {<<"7", "5">>, S_i32_min_digits},
        p \in {<<"0">>, S_i32_min_digits} }
    \cup
    { VersionCase(S_rustc, <<"1">>, <<"7", "0">>, <<"0">>, <<>>, <<>>) }

LineOf(c) == VersionLine(c.name, c.major, c.minor, c.patch, c.tag, c.rest)

GoodVersionLines == {LineOf(c) : c \in GoodVersionCases}

\* lines with a token or a component missing, or not a number
BadVersionLines ==
    { <<>>,
      S_rustc,
      S_rustc \o <<" ">>,
      S_rustc \o <<" ", "1">>,
      S_rustc \o <<" ", "1", ".", "7", "5">>,
      S_rustc \o <<" ", "1", ".", "7", "5", ".">>,
      S_rustc \o <<" ", "1", ".", "7", "5", ".", "x">>,
      S_rustc \o <<" ", "1", ".", "x", ".", "0">>,
      S_rustc \o <<" ", "x", ".", "7", "5", ".", "0">>,
      S_rustc \o <<" ", "1", ".", "7", "5", ".", "-", "1">>,
      S_rustc \o <<" ", " ", "1", ".", "7", "5", ".", "0">>,
      <<" ">> \o S_rustc \o <<" ", "1", ".", "7", "5", ".", "0">> }

\* what --version prints: no line, or one line
VersionOutputs ==
    {<<>>} \cup {<<l>> : l \in GoodVersionLines \cup BadVersionLines}

L_rustc_1_70_0 == VersionLine(S_rustc, <<"1">>, <<"7", "0">>, <<"0">>, <<>>, <<>>)

\* what a version query that exits non-zero prints: nothing, an unusable
\* line, or the version all the same
FailedVersionOutputs ==
    {<<>>} \cup {<<l>> : l \in BadVersionLines} \cup {<<L_rustc_1_70_0>>}

\* lines 746-868: the exit status of the version query is not looked at
VersionQuery ==
    /\ pc = "version"
    /\ \E status \in Statuses, lines \in VersionOutputs :
         /\ status = "spawn_error" => lines = <<>>
         /\ status = "failure" => lines \in FailedVersionOutputs
         /\ spawned' = Append(spawned,
                Command("version", "version", rustc, <<>>, NoTarget, "", <<>>,
                        <<>>, status))
         /\ stdout' = lines
         /\ IF status = "spawn_error"
            THEN Return(SpawnError(rustc)) /\ UNCHANGED version
            ELSE LET line == next(lines, 1)
                     r == IF line.some THEN parse_version(line.val, rustc)
                          ELSE VersionError(rustc)
                 IN  IF r.tag = "Ok"
                     THEN version' = r.version /\ pc' = "compile_bin" /\ UNCHANGED result
                     ELSE Return(r) /\ UNCHANGED version
    /\ UNCHANGED <<env, fs, wa, rustc, flags, targ, scratch>>

----------------------------------------------------------------------------
(* find_compiler, lines 870-957: the validation compiles and the run.      *)

\* lines 870-876
bin_output_file == PathPush(env.tmpdir, S_comptest \o targ.exe_suffix)

\* lines 917-924
rlib_output_file ==
    PathPush(env.tmpdir, targ.rlib_prefix \o S_comptest \o targ.rlib_suffix)

\* lines 901-907 and 941-947
RustcTestsResult(no_std) ==
    [tag |-> "Ok", rustc |-> rustc, rustflags |-> Split(flags, " "),
     no_std |-> no_std, version |-> version, target_info |-> targ]

\* the produced binary executed whatever cross_compiling is
runs_binary_always(cross_compiling) == TRUE

\* line 893: is the produced binary executed
runs_binary(cross_compiling) == ~cross_compiling

\* line 944: no_std of the result after the library-only compile
rlib_no_std == FALSE

\* no_std = true after the full-binary compile
bin_no_std_true == TRUE

\* line 904: no_std of the result after the full-binary compile
bin_no_std == FALSE

\* a failed run absorbed by the library-only compile
RunFailed_fallback == pc' = "write_no_std" /\ UNCHANGED result

\* lines 894-899: the produced binary exited non-zero
RunFailed ==
    Return(IoError("Unsupported", "Cannot execute binaries produced by {}", {rustc}))

\* a failed library-only compile that still yields a result
RlibFailed_ok == Return(RustcTestsResult(TRUE))

\* lines 948-956: the library-only compile exited non-zero
RlibFailed ==
    Return(IoError("Unsupported", "Cannot compile simple test program with {}", {rustc}))

\* lines 878-892
CompileBin ==
    /\ pc = "compile_bin"
    /\ \E status \in Statuses :
         /\ spawned' = Append(spawned,
                Command("compile", "bin", rustc, flags, NoTarget, "bin",
                        bin_output_file, comptest_path, status))
         /\ CASE status = "spawn_error" -> Return(SpawnError(rustc))
              [] status = "success" ->
                   IF runs_binary(env.cross_compiling)
                   THEN pc' = "run_bin" /\ UNCHANGED result
                   ELSE Return(RustcTestsResult(bin_no_std))
              [] status = "failure" -> pc' = "write_no_std" /\ UNCHANGED result
    /\ stdout' = <<>>
    /\ UNCHANGED <<env, fs, wa, rustc, flags, targ, version, scratch>>

\* lines 894-907
RunBin ==
    /\ pc = "run_bin"
    /\ \E status \in Statuses :
         /\ spawned' = Append(spawned,
                Command("run", "run", bin_output_file, <<>>, NoTarget, "", <<>>,
                        <<>>, status))
         /\ CASE status = "spawn_error" -> Return(SpawnError(bin_output_file))
              [] status = "failure" -> RunFailed
              [] status = "success" -> Return(RustcTestsResult(bin_no_std))
    /\ UNCHANGED <<env, fs, wa, rustc, flags, targ, version, scratch, stdout>>

\* lines 910-915: std::fs::write(&comptest_path, "#![no_std]")?
WriteNoStd ==
    /\ pc = "write_no_std"
    /\ \E ok \in BOOLEAN :
         IF ok
         THEN scratch' = "no_std" /\ pc' = "compile_rlib" /\ UNCHANGED result
         ELSE Return(IoError("Other", "os error", {comptest_path})) /\ UNCHANGED scratch
    /\ UNCHANGED <<env, fs, stdout, wa, rustc, flags, targ, version, spawned>>

\* lines 926-956
CompileRlib ==
    /\ pc = "compile_rlib"
    /\ \E status \in Statuses :
         /\ spawned' = Append(spawned,
                Command("compile", "rlib", rustc, flags, NoTarget, "rlib",
                        rlib_output_file, comptest_path, status))
         /\ CASE status = "spawn_error" -> Return(SpawnError(rustc))
              [] status = "success" -> Return(RustcTestsResult(rlib_no_std))
              [] status = "failure" -> RlibFailed
    /\ UNCHANGED <<env, fs, wa, rustc, flags, targ, version, scratch, stdout>>

Next ==
    \/ ReadFlags
    \/ Locate
    \/ WhichFor
    \/ WhichWhile
    \/ WriteSource
    \/ ProbeSelf
    \/ ProbeShort
    \/ ProbeFull
    \/ ProbeNorm
    \/ VersionQuery
    \/ CompileBin
    \/ RunBin
    \/ WriteNoStd
    \/ CompileRlib

Spec == Init /\ [][Next]_vars

\* a sequential program takes its next step, and every child process and
\* file-system call it waits for returns
LiveSpec == Spec /\ WF_vars(Next)

----------------------------------------------------------------------------
(* What the properties below read off a state.                             *)

Spawns(kind) == {i \in DOMAIN spawned : spawned[i].kind = kind}

SpawnsOf(kind, step, status) ==
    {i \in DOMAIN spawned :
        spawned[i].kind = kind /\ spawned[i].step = step /\ spawned[i].status = status}

\* the flag string find_compiler starts from
InitialFlags == IF env.flags_var.set THEN env.flags_var.val ELSE S_default_flags

\* the state right after the version query printed its output
AfterVersionQuery ==
    /\ spawned # <<>>
    /\ spawned[Len(spawned)].kind = "version"
    /\ spawned[Len(spawned)].status # "spawn_error"
    /\ pc # "version"

----------------------------------------------------------------------------
(* C1: a session whose full-binary compile exits non-zero and whose        *)
(* library-only compile exits zero returns Ok with no_std = true, and the  *)
(* artifact is never executed.                                             *)

C1_NoStdFallback ==
    (/\ pc = "done"
     /\ SpawnsOf("compile", "bin", "failure") # {}
     /\ SpawnsOf("compile", "rlib", "success") # {})
    => (/\ result.tag = "Ok"
        /\ result.no_std = TRUE
        /\ Spawns("run") = {})

----------------------------------------------------------------------------
(* C2: which_any returns the first (directory, candidate) pair, in PATH    *)
(* order and then candidate order, that resolves to an existing non-link   *)
(* path; absent earlier pairs do not prevent a later pair from being       *)
(* returned.                                                               *)

\* the non-link file a path resolves to, a relative link target being taken
\* from the directory that holds the link, or <<>> when it resolves to none
RECURSIVE ResolveWithin(_, _, _)
ResolveWithin(f, p, depth) ==
    LET meta == symlink_metadata(f, p)
    IN  CASE meta.type = "file" -> p
          [] meta.type = "link" /\ depth > 0 ->
                ResolveWithin(f, PathPush(parent(p), meta.to), depth - 1)
          [] OTHER -> <<>>

PairPath(d, n) == PathPush(env.PATH.dirs[d], Candidates(env.target)[n])

ResolvingPairs ==
    {pr \in (DOMAIN env.PATH.dirs) \X (DOMAIN Candidates(env.target)) :
        ResolveWithin(fs, PairPath(pr[1], pr[2]), MaxLinkDepth) # <<>>}

PairBefore(a, b) == a[1] < b[1] \/ (a[1] = b[1] /\ a[2] <= b[2])

FirstResolvingPair ==
    CHOOSE a \in ResolvingPairs : \A b \in ResolvingPairs : PairBefore(a, b)

WhichAnyCalled ==
    /\ ~env.var.set
    /\ env.PATH.set
    /\ ~(env.flags_var.set /\ ~env.flags_var.unicode)

WhichAnyReturned ==
    /\ WhichAnyCalled
    /\ pc \notin {"flags", "locate", "which_for", "which_while"}

C2_FirstPairReturned ==
    (WhichAnyReturned /\ ResolvingPairs # {})
    => rustc = ResolveWithin(fs, PairPath(FirstResolvingPair[1], FirstResolvingPair[2]),
                             MaxLinkDepth)

----------------------------------------------------------------------------
(* C3: when the attempts with the short name and with the full canonical   *)
(* string both exited non-zero, the next invocation passes as --target the *)
(* full string of the vendor-normalized triple.                            *)

VendorNormalized(t) == [t EXCEPT !.vendor = S_unknown]

C3_ThirdAttemptNormalized ==
    \A i \in DOMAIN spawned :
        (/\ spawned[i].kind = "probe"
         /\ i >= 3
         /\ spawned[i - 2].kind = "probe" /\ spawned[i - 2].status = "failure"
         /\ spawned[i - 1].kind = "probe" /\ spawned[i - 1].status = "failure")
        => spawned[i].target = TargetArg(to_string(VendorNormalized(env.target)))

----------------------------------------------------------------------------
(* C4: after find_rustc_target succeeded through a --target attempt, the   *)
(* target appended to the flags and stored in RustcTargetInfo.target is    *)
(* the --target argument of the probe that exited zero, and the later      *)
(* compiles carry it; after the self-naming shortcut nothing is appended.  *)

SucceededProbes == {i \in Spawns("probe") : spawned[i].status = "success"}

FindRustcTargetSucceeded == targ # NoTargetInfo

C4_AppendedTargetIsProbed ==
    FindRustcTargetSucceeded =>
        \A i \in SucceededProbes :
            IF spawned[i].target.has
            THEN /\ targ.target = spawned[i].target.val
                 /\ flags = InitialFlags \o S_target_flag \o spawned[i].target.val
                 /\ \A j \in Spawns("compile") :
                        spawned[j].args = Split(InitialFlags, " ")
                            \o <<<<"-", "-", "t", "a", "r", "g", "e", "t">>,
                                 spawned[i].target.val>>
            ELSE /\ flags = InitialFlags
                 /\ \A j \in Spawns("compile") :
                        spawned[j].args = Split(InitialFlags, " ")

----------------------------------------------------------------------------
(* C5: no file-name probe follows a probe that exited zero; the --target   *)
(* attempts are made in the order short name, full canonical string,       *)
(* vendor-normalized string, each only after every earlier one exited      *)
(* non-zero; at most one probe per session exits zero.                     *)

\* the --target attempts of the session, in the order they were made
TargetAttempts == {i \in Spawns("probe") : spawned[i].target.has}

AttemptRank(i) == Cardinality({j \in TargetAttempts : j <= i})

AttemptOrder(t) ==
    <<get_name(t), to_string(t), to_string(VendorNormalized(t))>>

\* no probe after a zero exit, and at most one zero exit
C5_NoProbeAfterSuccess ==
    /\ \A i, j \in Spawns("probe") : i < j => spawned[i].status = "failure"
    /\ Cardinality(SucceededProbes) <= 1

C5_FixedOrder ==
    /\ C5_NoProbeAfterSuccess
    /\ \A i \in TargetAttempts :
          /\ AttemptRank(i) <= 3
          /\ spawned[i].target.val = AttemptOrder(env.target)[AttemptRank(i)]

----------------------------------------------------------------------------
(* C6: when the third token of the version line is present and             *)
(* parenthesized, a payload of "mrustc" sets the identity to "mrust", a    *)
(* payload of "lccc" sets it to "lcrustc", any other payload leaves the    *)
(* identity as the first token decided; also when the whole parenthesized  *)
(* group is one token, "(lccc)" or "(mrustc)".                             *)

Parenthesized(token) == token # <<>> /\ Head(token) = "("

\* the text between "(" and the ")" that may end the token
Payload(token) ==
    LET inner == Tail(token)
    IN  IF inner # <<>> /\ inner[Len(inner)] = ")"
        THEN Upto(inner, Len(inner) - 1) ELSE inner

FirstTokenIdentity(tokens) == IF tokens[1] # S_rustc THEN tokens[1] ELSE S_rustc

C6_MarkerIdentity ==
    (AfterVersionQuery /\ pc = "compile_bin") =>
        LET tokens == Split(stdout[1], " ")
        IN  (Len(tokens) >= 3 /\ Parenthesized(tokens[3])) =>
                version.prgname =
                    CASE Payload(tokens[3]) = S_mrustc -> S_mrust
                      [] Payload(tokens[3]) = S_lccc -> S_lcrustc
                      [] OTHER -> FirstTokenIdentity(tokens)

----------------------------------------------------------------------------
(* C7: every RustcVersion whose prgname begins with "lc" has channel       *)
(* Unstable, whatever channel tag the version string carried and whether   *)
(* the identity came from the first token or from the marker.              *)

C7_LcIsUnstable ==
    /\ (version # NoVersion /\ StartsWith(version.prgname, S_lc))
           => version.channel = "Unstable"
    /\ (result.tag = "Ok" /\ StartsWith(result.version.prgname, S_lc))
           => result.version.channel = "Unstable"

L_nightly_lccc ==
    VersionLine(S_rustc, <<"1">>, <<"7", "5">>, <<"0">>,
                <<"-", "n", "i", "g", "h", "t", "l", "y">>,
                <<" ", "(", "l", "c", "c", "c", " ", "1", ")">>)

\* "rustc 1.75.0-nightly (lccc 1)": the identity from the marker, the tag nightly
C7_Witness ==
    /\ pc = "compile_bin"
    /\ stdout = <<L_nightly_lccc>>
    /\ version.prgname = S_lcrustc
    /\ version.channel = "Unstable"

----------------------------------------------------------------------------
(* C8: a version line "<name> <major>.<minor>.<patch>[-<tag>] ..." with    *)
(* integer major, minor and patch yields those three integers, identity    *)
(* "rustc" when the name is "rustc" and no marker fires, and, unless the   *)
(* identity begins with "lc", channel Stable without a tag, Beta for       *)
(* "beta", Nightly for "nightly" and Dev for any other tag.                *)

\* the integer a numeral of VersionNumbers denotes (-1: beyond the integers
\* TLC represents, which are those of i32)
NumberOf(numeral) ==
    CASE numeral = <<"1">> -> 1
      [] numeral = <<"7", "5">> -> 75
      [] numeral = <<"0">> -> 0
      [] OTHER -> -1

NoMarkerRests == {<<>>, <<" ", "(", "a", "b", "c", "d", "e", "f", ")", " ">>}

\* the channel of a tag, the tag being all that follows the patch number
ChannelOfWholeTag(tag) ==
    CASE tag = <<>> -> "Stable"
      [] tag = <<"-", "b", "e", "t", "a">> -> "Beta"
      [] tag = <<"-", "n", "i", "g", "h", "t", "l", "y">> -> "Nightly"
      [] OTHER -> "Dev"

\* the tag up to its first "." or "-"
TagHead(text) ==
    LET cuts == {i \in 1..Len(text) : text[i] \in {".", "-"}}
    IN  IF cuts = {} THEN text
        ELSE Upto(text, (CHOOSE i \in cuts : \A j \in cuts : i <= j) - 1)

\* the channel of a tag, decided by the tag up to its first "." or "-"
ChannelOfTagHead(tag) ==
    IF tag = <<>> THEN "Stable"
    ELSE ChannelOfWholeTag(<<"-">> \o TagHead(Tail(tag)))

YieldsVersion(c, channel) ==
    /\ pc = "compile_bin"
    /\ version.major = NumberOf(c.major)
    /\ version.minor = NumberOf(c.minor)
    /\ version.patch = NumberOf(c.patch)
    /\ (c.name = S_rustc /\ c.rest \in NoMarkerRests) => version.prgname = S_rustc
    /\ ~StartsWith(version.prgname, S_lc) => version.channel = channel

\* the claim as stated
C8_WholeTagChannel ==
    AfterVersionQuery =>
        \A c \in GoodVersionCases :
            stdout = <<LineOf(c)>> => YieldsVersion(c, ChannelOfWholeTag(c.tag))

InI32(c) == \A numeral \in {c.major, c.minor, c.patch} : NumberOf(numeral) >= 0

\* the claim for numbers within i32, the channel decided by the tag up to its
\* first "." or "-"
C8_TagHeadChannel ==
    AfterVersionQuery =>
        \A c \in {d \in GoodVersionCases : InI32(d)} :
            stdout = <<LineOf(c)>> => YieldsVersion(c, ChannelOfTagHead(c.tag))

L_nightly_abcdef ==
    VersionLine(S_rustc, <<"1">>, <<"7", "5">>, <<"0">>,
                <<"-", "n", "i", "g", "h", "t", "l", "y">>,
                <<" ", "(", "a", "b", "c", "d", "e", "f", ")", " ">>)

\* "rustc 1.75.0-nightly (abcdef) " gives 1, 75, 0, Nightly, "rustc"
C8_Witness ==
    /\ pc = "compile_bin"
    /\ stdout = <<L_nightly_abcdef>>
    /\ version = [prgname |-> S_rustc, major |-> 1, minor |-> 75, patch |-> 0,
                  channel |-> "Nightly"]

----------------------------------------------------------------------------
(* C9: when the version query prints no line, or the line lacks the name   *)
(* token, the version token or one of the three dot-separated components,  *)
(* or major, minor or patch is not an integer, find_compiler returns an    *)
(* Unsupported error naming the compiler path and invokes no validation    *)
(* compile.                                                                *)

IsInteger(text) ==
    LET body == IF text # <<>> /\ Head(text) \in {"+", "-"} THEN Tail(text) ELSE text
    IN  body # <<>> /\ \A i \in 1..Len(body) : IsDigit(body[i])

\* the third component up to the "-" that starts the tag
PatchText(component) ==
    LET u == Find(component, S_hyphen)
    IN  IF u = -1 THEN component ELSE Upto(component, u)

UnusableVersionOutput(lines) ==
    \/ lines = <<>>
    \/ LET tokens == Split(lines[1], " ")
       IN  \/ Len(tokens) < 2
           \/ LET parts == Split(tokens[2], ".")
              IN  \/ Len(parts) < 3
                  \/ ~IsInteger(parts[1])
                  \/ ~IsInteger(parts[2])
                  \/ ~IsInteger(PatchText(parts[3]))

----------------------------------------------------------------------------
(* C10: a session started with cross_compiling = true never spawns the     *)
(* artifact it compiled, whether or not the full-binary compile succeeded. *)

C10_CrossNeverRuns ==
    env.cross_compiling =>
        \A i \in DOMAIN spawned :
            /\ spawned[i].kind # "run"
            /\ spawned[i].prog = rustc

\* a cross-compiling session whose full-binary compile succeeded and returned
C10_Witness ==
    /\ env.cross_compiling
    /\ SpawnsOf("compile", "bin", "success") # {}
    /\ result.tag = "Ok"

----------------------------------------------------------------------------
(* C11: when cross_compiling is false, the full-binary compile exits zero  *)
(* and the produced binary exits non-zero, find_compiler returns an        *)
(* Unsupported error naming the compiler path; it does not fall back to    *)
(* the library-only compile and returns no Toolchain Description.          *)

BinaryRunFailed ==
    /\ ~env.cross_compiling
    /\ SpawnsOf("compile", "bin", "success") # {}
    /\ SpawnsOf("run", "run", "failure") # {}

C11_FailedRunUnsupported ==
    BinaryRunFailed =>
        /\ pc = "done"
        /\ result.tag = "Err"
        /\ result.kind = "Unsupported"
        /\ rustc \in result.names
        /\ SpawnsOf("compile", "rlib", "success") = {}
        /\ SpawnsOf("compile", "rlib", "failure") = {}
        /\ SpawnsOf("compile", "rlib", "spawn_error") = {}
        /\ scratch = "main"

C11_Witness ==
    /\ BinaryRunFailed
    /\ pc = "done"
    /\ result.tag = "Err"
    /\ result.kind = "Unsupported"

----------------------------------------------------------------------------
(* C12: when the full-binary compile exits zero and either cross_compiling *)
(* is true or the produced binary exits zero, find_compiler returns Ok     *)
(* with no_std = false, and the library-only compile is never invoked.     *)

RuntimeCapable ==
    /\ SpawnsOf("compile", "bin", "success") # {}
    /\ env.cross_compiling \/ SpawnsOf("run", "run", "success") # {}

C12_RuntimeCapableOk ==
    RuntimeCapable =>
        /\ pc = "done"
        /\ result.tag = "Ok"
        /\ result.no_std = FALSE
        /\ \A i \in Spawns("compile") : spawned[i].step = "bin"
        /\ scratch = "main"

\* not cross-compiling: the binary was built, run, and exited zero
C12_Witness ==
    /\ RuntimeCapable
    /\ ~env.cross_compiling
    /\ result.tag = "Ok"
    /\ result.no_std = FALSE

----------------------------------------------------------------------------
(* C13: when both the full-binary compile and the library-only compile     *)
(* exit non-zero, find_compiler returns an Unsupported error naming the    *)
(* compiler path and no Toolchain Description.                             *)

BothCompilesFailed ==
    /\ SpawnsOf("compile", "bin", "failure") # {}
    /\ SpawnsOf("compile", "rlib", "failure") # {}

C13_BothFailedUnsupported ==
    BothCompilesFailed =>
        /\ pc = "done"
        /\ result.tag = "Err"
        /\ result.kind = "Unsupported"
        /\ rustc \in result.names

C13_Witness ==
    /\ BothCompilesFailed
    /\ pc = "done"
    /\ result.tag = "Err"
    /\ scratch = "no_std"

----------------------------------------------------------------------------
(* C14: whenever every file-name probe attempt exits non-zero (the single  *)
(* attempt of the self-naming shortcut, or all three --target attempts),   *)
(* find_rustc_target fails with an Unsupported error whose message names   *)
(* both the target triple and the compiler path.                           *)

\* the compiler's file name starts with the triple's short canonical name
SelfNamed == rustc # <<>> /\ StartsWith(file_name(rustc), env.target.name)

EveryAttemptFailed ==
    /\ \A i \in Spawns("probe") : spawned[i].status = "failure"
    /\ spawned # <<>>
    /\ spawned[Len(spawned)].kind = "probe"
    /\ IF SelfNamed THEN Cardinality(Spawns("probe")) = 1
                    ELSE Cardinality(Spawns("probe")) = 3

\* the message was formatted with the triple's name or its full string
NamesTriple(error) == error.names \cap {env.target.name, to_string(env.target)} # {}

C14_TargetAttemptsNameBoth ==
    (EveryAttemptFailed /\ ~SelfNamed) =>
        /\ pc = "done"
        /\ result.tag = "Err"
        /\ result.kind = "Unsupported"
        /\ rustc \in result.names
        /\ NamesTriple(result)

----------------------------------------------------------------------------
(* C15: an I/O error of spawning the compiler at any probe attempt is      *)
(* returned unchanged, not as Unsupported, and no later probe attempt,     *)
(* version query or compile is invoked.                                    *)

C15_ProbeSpawnErrorReturned ==
    \A i \in Spawns("probe") :
        spawned[i].status = "spawn_error" =>
            /\ i = Len(spawned)
            /\ pc = "done"
            /\ result = SpawnError(rustc)
            /\ result.kind # "Unsupported"

\* the spawn fails at the second --target attempt
C15_Witness ==
    /\ pc = "done"
    /\ Len(spawned) = 2
    /\ spawned[1].status = "failure"
    /\ spawned[2].kind = "probe"
    /\ spawned[2].step = "full"
    /\ spawned[2].status = "spawn_error"
    /\ result = SpawnError(rustc)

----------------------------------------------------------------------------
(* C16: a probe invocation that exits zero but prints fewer than six lines *)
(* makes find_rustc_target fail with an Unsupported error naming the       *)
(* compiler path, in each of the four branches, with no further fallback   *)
(* attempt.                                                                *)

ProbeJustSucceeded ==
    /\ spawned # <<>>
    /\ spawned[Len(spawned)].kind = "probe"
    /\ spawned[Len(spawned)].status = "success"

----------------------------------------------------------------------------
(* C17: for every six predicted file names, the naming record has:         *)
(* executable suffix = the part of line 1 from its first "." (empty if it  *)
(* has none); for the rlib, dylib, staticlib, cdylib and proc-macro lines  *)
(* (lines 2 to 6 in that order), prefix = the part before the first        *)
(* occurrence of "comptest" (empty if absent) and suffix = the part from   *)
(* the first "." (empty if absent).                                        *)

\* the part of a name from its first ".", read character by character
RECURSIVE FromFirstDot(_)
FromFirstDot(name) ==
    IF name = <<>> THEN <<>>
    ELSE IF Head(name) = "." THEN name
    ELSE FromFirstDot(Tail(name))

Occurs(name, word) ==
    \E i \in 1..(Len(name) - Len(word) + 1) : SubSeq(name, i, i + Len(word) - 1) = word

RECURSIVE BeforeFirst(_, _)
BeforeFirst(name, word) ==
    IF ~Occurs(name, word) THEN <<>>
    ELSE IF SubSeq(name, 1, Len(word)) = word THEN <<>>
    ELSE <<Head(name)>> \o BeforeFirst(Tail(name), word)

SixNamesDerived == ProbeJustSucceeded /\ Len(stdout) >= 6

C17_NamingRecordFields ==
    SixNamesDerived =>
        /\ pc = "version"
        /\ targ.exe_suffix = FromFirstDot(stdout[1])
        /\ targ.rlib_prefix = BeforeFirst(stdout[2], S_comptest)
        /\ targ.rlib_suffix = FromFirstDot(stdout[2])
        /\ targ.dylib_prefix = BeforeFirst(stdout[3], S_comptest)
        /\ targ.dylib_suffix = FromFirstDot(stdout[3])
        /\ targ.staticlib_prefix = BeforeFirst(stdout[4], S_comptest)
        /\ targ.staticlib_suffix = FromFirstDot(stdout[4])
        /\ targ.cdylib_prefix = BeforeFirst(stdout[5], S_comptest)
        /\ targ.cdylib_suffix = FromFirstDot(stdout[5])
        /\ targ.procmacro_prefix = BeforeFirst(stdout[6], S_comptest)
        /\ targ.procmacro_suffix = FromFirstDot(stdout[6])

\* names where the first "." is not the last, precedes the crate name, or is
\* missing, and where the crate name is missing or occurs twice
C17_Witness ==
    /\ SixNamesDerived
    /\ stdout = OddNames
    /\ targ.exe_suffix = <<".", "b", ".", "c">>
    /\ targ.rlib_prefix = <<"x", ".">>
    /\ targ.rlib_suffix = <<".", "c", "o", "m", "p", "t", "e", "s", "t">>
    /\ targ.dylib_prefix = <<>>
    /\ targ.dylib_suffix = <<>>
    /\ targ.staticlib_prefix = <<>>
    /\ targ.staticlib_suffix = <<".", "a">>
    /\ targ.cdylib_prefix = <<"l", "i", "b">>
    /\ targ.cdylib_suffix = <<>>
    /\ targ.procmacro_prefix = <<"p", "-">>
    /\ targ.procmacro_suffix = <<".", "s", "o", ".", "1">>

----------------------------------------------------------------------------
(* C18: naming derivation is a pure function of the six output lines: two  *)
(* derivations from the same six lines yield the same prefix/suffix        *)
(* values, whatever the compiler path, flags, target or branch.            *)

\* the prefix/suffix values of a naming record (the executable has a suffix
\* alone: RustcTargetInfo has no exe_prefix)
Naming(info) == [info EXCEPT !.target = <<>>]

\* the compiler paths and the target strings another derivation may start from
OtherPaths == {P_b_rustc, P_a_rustc, P_b_gccrs, rustc}

OtherRets ==
    {[NoTargetInfo EXCEPT !.target = t] :
        t \in UNION {{x.name, to_string(x), to_string(ntarget(x))} : x \in Targets}}

Rederived(ret, rustc_path) == file_names(ret, stdout, rustc_path)

----------------------------------------------------------------------------
(* C19: when the compiler's file name starts with the triple's short       *)
(* canonical name, find_rustc_target makes exactly one probe invocation,   *)
(* without --target, leaves the working flag string unchanged whether the  *)
(* probe succeeds or fails, and makes none of the three --target attempts. *)

\* find_rustc_target was called and its first invocation has returned
FirstProbeMade == scratch # "none" /\ pc # "probe_self"

C19_SelfNamingOneProbe ==
    (SelfNamed /\ FirstProbeMade) =>
        /\ Cardinality(Spawns("probe")) = 1
        /\ \A i \in Spawns("probe") :
              /\ ~spawned[i].target.has
              /\ spawned[i].args = Split(InitialFlags, " ")
        /\ flags = InitialFlags
        /\ \A i \in Spawns("compile") : spawned[i].args = Split(InitialFlags, " ")

\* the shortcut's probe succeeded: the session goes on with the flags as they were
C19_Witness ==
    /\ SelfNamed
    /\ pc = "version"
    /\ SpawnsOf("probe", "self", "success") # {}
    /\ targ.target = env.target.name
    /\ flags = InitialFlags

----------------------------------------------------------------------------
(* C20: which_any fails with an error of kind NotFound when the PATH       *)
(* variable is absent and when no PATH directory contains any candidate;   *)
(* a failure to read a link in a chain is returned as the underlying I/O   *)
(* error.                                                                  *)

\* find_compiler reached which_any without a PATH, and which_any returned
PathAbsentReturned ==
    /\ ~env.var.set
    /\ ~env.PATH.set
    /\ ~(env.flags_var.set /\ ~env.flags_var.unicode)
    /\ pc \notin {"flags", "locate"}

NoCandidateAnywhere ==
    \A d \in DOMAIN env.PATH.dirs, n \in DOMAIN Candidates(env.target) :
        symlink_metadata(fs, PairPath(d, n)).type = "absent"

FailedNotFound ==
    /\ pc = "done"
    /\ result.tag = "Err"
    /\ result.kind = "NotFound"
    /\ rustc = <<>>
    /\ spawned = <<>>

\* the while loop held a link that could not be read, and its turn was taken
ReadLinkFailed == wa.meta.type = "badlink" /\ pc # "which_while"

C20_WhichAnyFailures ==
    /\ PathAbsentReturned => FailedNotFound
    /\ (WhichAnyReturned /\ NoCandidateAnywhere) => FailedNotFound
    /\ ReadLinkFailed =>
          /\ pc = "done"
          /\ result = IoError("Other", "os error", {wa.path})
          /\ rustc = <<>>
          /\ spawned = <<>>

\* the second link of a chain cannot be read
C20_Witness ==
    /\ ReadLinkFailed
    /\ wa.path = P_b_rustc
    /\ symlink_metadata(fs, P_a_rustc) = Link(P_b_rustc)
    /\ result = IoError("Other", "os error", {P_b_rustc})

----------------------------------------------------------------------------
(* C21: when a candidate found in a PATH directory is a symbolic link, the *)
(* path which_any returns is the final non-link target of the link chain,  *)
(* also when a link's stored target is a relative path (which is relative  *)
(* to the directory holding the link).                                     *)

\* the first pair which_any examines is a link whose chain ends in a file
FirstCandidate == PairPath(1, 1)

CandidateIsResolvingLink ==
    /\ WhichAnyReturned
    /\ symlink_metadata(fs, FirstCandidate).type = "link"
    /\ ResolveWithin(fs, FirstCandidate, MaxLinkDepth) # <<>>

C21_LinkChainResolved ==
    CandidateIsResolvingLink =>
        /\ result.tag # "Err"
        /\ rustc = ResolveWithin(fs, FirstCandidate, MaxLinkDepth)

\* the same for a link whose stored target is an absolute path
C21_AbsoluteLinkResolved ==
    (CandidateIsResolvingLink /\ StartsWith(symlink_metadata(fs, FirstCandidate).to, S_slash))
    => rustc = ResolveWithin(fs, FirstCandidate, MaxLinkDepth)

----------------------------------------------------------------------------
(* C22: given a working compiler named rustc in some PATH directory, no    *)
(* compiler override variable, a triple whose short name the compiler      *)
(* accepts natively, cross_compiling = false, a writable scratch directory *)
(* and the version line "rustc 1.70.0", find_compiler returns Ok with a    *)
(* non-empty exe_suffix, no_std = false and channel = Stable.              *)

RustcInSomeDirectory ==
    \E d \in DOMAIN env.PATH.dirs :
        ResolveWithin(fs, PathPush(env.PATH.dirs[d], S_rustc), MaxLinkDepth) # <<>>

RustcInFirstDirectory ==
    /\ env.PATH.dirs # <<>>
    /\ ResolveWithin(fs, PathPush(env.PATH.dirs[1], S_rustc), MaxLinkDepth) # <<>>
    /\ (\/ symlink_metadata(fs, PathPush(env.PATH.dirs[1], S_rustc)).type = "file"
        \/ StartsWith(symlink_metadata(fs, PathPush(env.PATH.dirs[1], S_rustc)).to, S_slash))

\* every child process exited zero, every probe printed six names, the
\* scratch file could be written, and the version line was "rustc 1.70.0"
\* (the one line of the model that parses to 1.70.0)
CompilerWorked ==
    /\ \A i \in DOMAIN spawned : spawned[i].status = "success"
    /\ ProbeJustSucceeded => Len(stdout) >= 6
    /\ AfterVersionQuery => stdout = <<L_rustc_1_70_0>>
    /\ Spawns("compile") # {} =>
          version.major = 1 /\ version.minor = 70 /\ version.patch = 0
    /\ result.tag = "Err" => comptest_path \notin result.names

EndToEndScenario ==
    /\ pc = "done"
    /\ ~env.var.set
    /\ env.PATH.set
    /\ ~(env.flags_var.set /\ ~env.flags_var.unicode)
    /\ ~env.cross_compiling
    /\ CompilerWorked

C22_EndToEnd ==
    (EndToEndScenario /\ RustcInSomeDirectory) =>
        /\ result.tag = "Ok"
        /\ result.target_info.exe_suffix # <<>>
        /\ result.no_std = FALSE
        /\ result.version.channel = "Stable"

\* the same with rustc in the first PATH directory, and the executable
\* suffix as derived from the predicted name (empty for "comptest")
C22_FirstDirectoryEndToEnd ==
    (EndToEndScenario /\ RustcInFirstDirectory) =>
        /\ result.tag = "Ok"
        /\ result.target_info.exe_suffix = targ.exe_suffix
        /\ result.no_std = FALSE
        /\ result.version.channel = "Stable"
        /\ Len(spawned) = 4

----------------------------------------------------------------------------
(* C23: in every session the phases occur in the order locate compiler,    *)
(* file-name probing, version query, full-binary compile, then (run of the *)
(* binary or library-only compile): the version query is invoked only      *)
(* after a probe attempt succeeded and its naming was derived, and no      *)
(* validation compile is invoked before the version line was parsed        *)
(* successfully.                                                           *)

PhaseOf(i) ==
    CASE spawned[i].kind = "probe" -> 1
      [] spawned[i].kind = "version" -> 2
      [] spawned[i].kind = "compile" /\ spawned[i].step = "bin" -> 3
      [] OTHER -> 4

Located == rustc # <<>> /\ pc \notin {"flags", "locate", "which_for", "which_while"}

C23_PhaseOrder ==
    /\ spawned # <<>> => Located
    /\ \A i \in DOMAIN spawned :
          spawned[i].kind \in {"probe", "version", "compile"} => spawned[i].prog = rustc
    /\ \A i, j \in DOMAIN spawned :
          i < j => /\ PhaseOf(i) <= PhaseOf(j)
                   /\ PhaseOf(i) >= 2 => PhaseOf(i) < PhaseOf(j)
    /\ \A v \in Spawns("version") :
          /\ v > 1
          /\ spawned[v - 1].kind = "probe"
          /\ spawned[v - 1].status = "success"
          /\ targ # NoTargetInfo
    /\ \A c \in Spawns("compile") \cup Spawns("run") :
          /\ \E v \in Spawns("version") : v < c /\ spawned[v].status # "spawn_error"
          /\ version # NoVersion
    /\ \A c \in DOMAIN spawned :
          PhaseOf(c) = 4 =>
              \E b \in Spawns("compile") : b = c - 1 /\ spawned[b].step = "bin"

\* the longest session: three probes, the version query, both compiles
C23_Witness ==
    /\ pc = "done"
    /\ Len(spawned) = 6
    /\ spawned[3].kind = "probe" /\ spawned[3].status = "success"
    /\ spawned[4].kind = "version"
    /\ spawned[5].kind = "compile" /\ spawned[5].step = "bin"
    /\ spawned[6].kind = "compile" /\ spawned[6].step = "rlib"
    /\ result.tag = "Ok"

----------------------------------------------------------------------------
(* C24: apart from a non-zero exit of a --target probe attempt (absorbed   *)
(* by the next fallback step) and a non-zero exit of the full-binary       *)
(* compile (absorbed by the library-only compile), every error ends the    *)
(* session at once: after it no compiler process is spawned, no scratch    *)
(* file is written, and the caller receives that error and no Toolchain    *)
(* Description.                                                            *)

\* the two failures the claim names as absorbed
Absorbed(i) ==
    /\ spawned[i].status = "failure"
    /\ \/ spawned[i].kind = "probe" /\ spawned[i].target.has
       \/ spawned[i].kind = "compile" /\ spawned[i].step = "bin"

ProcessFailed(i) == spawned[i].status # "success"

EndedWithError ==
    /\ pc = "done"
    /\ result.tag = "Err"

C24_ErrorsEndSession ==
    /\ \A i \in DOMAIN spawned :
          (ProcessFailed(i) /\ ~Absorbed(i)) => (i = Len(spawned) /\ EndedWithError)
    /\ result.tag = "Err" => pc = "done"
    /\ (ProbeJustSucceeded /\ Len(stdout) < 6) => EndedWithError
    /\ scratch = "no_std" => \E i \in DOMAIN spawned : Absorbed(i) /\ spawned[i].kind = "compile"

\* the same, a non-zero exit of the version query not being taken for an error
C24_ReturnedErrorsEndSession ==
    /\ \A i \in DOMAIN spawned :
          (/\ ProcessFailed(i)
           /\ ~Absorbed(i)
           /\ ~(spawned[i].kind = "version" /\ spawned[i].status = "failure"))
          => (i = Len(spawned) /\ EndedWithError)
    /\ result.tag = "Err" => pc = "done"
    /\ (ProbeJustSucceeded /\ Len(stdout) < 6) => EndedWithError
    /\ scratch = "no_std" => \E i \in DOMAIN spawned : Absorbed(i) /\ spawned[i].kind = "compile"

----------------------------------------------------------------------------
(* C25: two probing sessions that run concurrently with distinct scratch   *)
(* directories never read, write or execute a common scratch file in any   *)
(* interleaving: every file a session writes, names as compiler input,     *)
(* names as --emit output or executes lies in that session's own scratch   *)
(* directory.                                                              *)

InOwnScratch(p) == parent(p) = env.tmpdir

\* the files the session has written, named as input or output, or executed
SessionFiles ==
    (IF scratch = "none" THEN {} ELSE {comptest_path})
    \cup {spawned[i].input : i \in Spawns("probe") \cup Spawns("compile")}
    \cup {spawned[i].emit : i \in Spawns("compile")}
    \cup {spawned[i].prog : i \in Spawns("run")}

C25_BareNamesInOwnScratch ==
    (Find(targ.rlib_prefix, S_slash) = -1) => \A p \in SessionFiles : InOwnScratch(p)

----------------------------------------------------------------------------
(* C26: when the compiler override variable is set, find_compiler uses     *)
(* exactly that path as the compiler for every invocation of the session   *)
(* and does not consult the Executable Locator, so an absent PATH variable *)
(* or a PATH holding no candidate does not make the session fail.          *)

C26_OverrideUsed ==
    env.var.set =>
        /\ wa = NoWa
        /\ pc \notin {"which_for", "which_while"}
        /\ rustc \in {<<>>, env.var.val}
        /\ (pc \notin {"flags", "locate"} /\ ~(env.flags_var.set /\ ~env.flags_var.unicode))
              => rustc = env.var.val
        /\ \A i \in Spawns("probe") \cup Spawns("version") \cup Spawns("compile") :
              spawned[i].prog = env.var.val
        /\ result.tag = "Err" => (result # PathVarError /\ result.kind # "NotFound")
        /\ result.tag = "Ok" => result.rustc = env.var.val

\* a session without PATH that returns a Toolchain Description
C26_Witness ==
    /\ env.var.set
    /\ ~env.PATH.set
    /\ pc = "done"
    /\ result.tag = "Ok"
    /\ result.rustc = env.var.val
    /\ Spawns("compile") # {}

----------------------------------------------------------------------------
(* C27: which_any terminates on every finite filesystem: the loop that     *)
(* follows a candidate's symbolic links ends with a non-link entry or an   *)
(* I/O failure, including when the links form a cycle.                     *)

InWhichAny == pc \in {"which_for", "which_while"}

C27_WhichAnyTerminates == InWhichAny ~> ~InWhichAny

----------------------------------------------------------------------------
(* C28: provided every child process terminates, a find_compiler session   *)
(* eventually returns, after spawning at most seven child processes: at    *)
(* most three file-name probes (exactly one under the self-naming          *)
(* shortcut), one version query, at most two compiles and at most one run  *)
(* of the produced binary.                                                 *)

C28_SessionReturns == <>(pc = "done")

\* the numbers of processes alone
C28_ProcessCounts ==
    /\ Len(spawned) <= 7
    /\ Cardinality(Spawns("probe")) <= 3
    /\ (SelfNamed /\ FirstProbeMade) => Cardinality(Spawns("probe")) = 1
    /\ Cardinality(Spawns("version")) <= 1
    /\ Cardinality(Spawns("compile")) <= 2
    /\ Cardinality(Spawns("run")) <= 1
    /\ Spawns("probe") \cup Spawns("version") \cup Spawns("compile") \cup Spawns("run")
          = DOMAIN spawned

----------------------------------------------------------------------------
(* C29: the flag list in a returned Toolchain Description (rustflags)      *)
(* contains no empty-string element, for every value of the flags override *)
(* variable including the empty string and strings with consecutive or     *)
(* trailing spaces; with an empty override under the self-naming shortcut  *)
(* the list is empty.                                                      *)

EmptyOverride == env.flags_var.set /\ env.flags_var.unicode /\ env.flags_var.val = <<>>

C29_NoEmptyFlag ==
    result.tag = "Ok" =>
        /\ \A i \in DOMAIN result.rustflags : result.rustflags[i] # <<>>
        /\ (EmptyOverride /\ SelfNamed) => result.rustflags = <<>>

\* the same for flag strings that neither are empty, nor start or end with a
\* space, nor hold two spaces in a row
Spaced(text) ==
    \/ text = <<>>
    \/ text[1] = " "
    \/ text[Len(text)] = " "
    \/ \E i \in 1..(Len(text) - 1) : text[i] = " " /\ text[i + 1] = " "

C29_NoEmptyFlagOfPlainFlags ==
    (result.tag = "Ok" /\ ~Spaced(InitialFlags)) =>
        \A i \in DOMAIN result.rustflags : result.rustflags[i] # <<>>

----------------------------------------------------------------------------
(* C30: the four probing branches of find_rustc_target (self-naming        *)
(* shortcut and the three --target attempts) derive the Naming Record by   *)
(* the same function: given the same six output lines, each branch yields  *)
(* equal values for all prefix/suffix fields.                              *)

\* what each branch's block makes of the lines the session read
BranchNamings ==
    LET ret == ret_of(targ.target)
    IN  { file_names(ret, stdout, rustc),
          file_names_short(ret, stdout, rustc),
          file_names_full(ret, stdout, rustc),
          file_names_norm(ret, stdout, rustc) }

C30_BranchesDeriveAlike ==
    SixNamesDerived => BranchNamings = {[tag |-> "Ok", info |-> targ]}

\* names derived by the third --target attempt, as the block of the branch
\* without --target derives them
C30_Witness ==
    /\ SixNamesDerived
    /\ spawned[Len(spawned)].step = "norm"
    /\ stdout = OddNames
    /\ file_names(ret_of(targ.target), stdout, rustc).info = targ
    /\ targ.exe_suffix = <<".", "b", ".", "c">>

----------------------------------------------------------------------------
(* C31: find_compiler reports every failure as a returned error value and  *)
(* never aborts (panics), for every value of the compiler override         *)
(* variable, including a path that has no final file-name component such   *)
(* as "/" or one ending in "..".                                           *)

Returned == result.tag \in {"Ok", "Err"}

C31_NeverPanics ==
    /\ result.tag # "Panic"
    /\ pc = "done" => Returned

\* the same for a compiler path that has a final file-name component
C31_NamedCompilerNeverPanics ==
    (rustc # <<>> /\ ~file_name_is_none(rustc)) =>
        /\ result.tag # "Panic"
        /\ pc = "done" => Returned

=============================================================================
